---- MODULE Spec2Model ----
\* Image Memory Match (src/emoji_memory_match.py): the MemoryGame object and its
\* Card grid as a state machine.  The methods of MemoryGame are operators from
\* the object's fields (a record, `self`) to its fields after the call; the
\* actions are the event branches of MemoryGame.handle_events and the rest of
\* the loop body of MemoryGame.run.
\*
\* Time is counted in 1/Scale seconds.  A progress counter of the source (a float
\* in [0, 1]) is kept as an integer in 0..Scale.  Card.match_animation_progress
\* is cosmetic (it is read by draw_card only) and is not part of the state.
EXTENDS Integers, Sequences, FiniteSets, TLC

VARIABLES
    images,            \* self.images: the keys of the dict, in insertion order
    cards,             \* self.cards[row][col]: image_id, state, flip_animation_progress
    revealed_cards,    \* self.revealed_cards: the cards, named by <<row, col>>
    moves,             \* self.moves
    start_time,        \* self.start_time (None before the first flip)
    game_won,          \* self.game_won
    mismatch_timer,    \* self.mismatch_timer
    showing_mismatch,  \* self.showing_mismatch
    win_time,          \* self.win_time (None while the attribute does not exist)
    now,               \* time.time()
    dt                 \* run's local dt

vars == <<images, cards, revealed_cards, moves, start_time, game_won,
          mismatch_timer, showing_mismatch, win_time, now, dt>>

\* The fields of the MemoryGame object that its methods write.
self ==
    [cards |-> cards, revealed_cards |-> revealed_cards, moves |-> moves,
     start_time |-> start_time, game_won |-> game_won,
     mismatch_timer |-> mismatch_timer, showing_mismatch |-> showing_mismatch,
     win_time |-> win_time]

\* The object's fields become those of g.
Becomes(g) ==
    /\ cards' = g.cards
    /\ revealed_cards' = g.revealed_cards
    /\ moves' = g.moves
    /\ start_time' = g.start_time
    /\ game_won' = g.game_won
    /\ mismatch_timer' = g.mismatch_timer
    /\ showing_mismatch' = g.showing_mismatch
    /\ win_time' = g.win_time

\* ---------------------------------------------------------------- bounds

\* Time units per second.
Scale == 16
\* A frame's dt is a multiple of DtUnit time units, at most MaxDtSteps of them.
DtUnit == 8
MaxDtSteps == 1
\* time.time() when run reaches its first frame.
Epoch == 1
\* random.shuffle draws from the generators seeded 0..MaxSeed.
MaxSeed == 0
\* At most MaxMissing of the image files fail to load (the first ones).
MaxMissing == 1

\* ---------------------------------------------------------------- constants

GRID_SIZE == 4
CARD_SIZE == 100
CARD_MARGIN == 10
UI_OFFSET == 100
NUM_IMAGES == 8
FLIP_SPEED == 8
MISMATCH_DELAY == 1
LEFT_BUTTON == 1
None == -1

HIDDEN == "hidden"
REVEALED == "revealed"
MATCHED == "matched"
FLIPPING == "flipping"
CardState == {HIDDEN, REVEALED, MATCHED, FLIPPING}

Rows == 0 .. (GRID_SIZE - 1)
Cols == 0 .. (GRID_SIZE - 1)
Cells == Rows \X Cols

\* ---------------------------------------------------------------- Card

\* Card.__init__
Card(image_id) ==
    [image_id |-> image_id, state |-> HIDDEN, flip_animation_progress |-> 0]

\* start_flip_animation that leaves the state as it is (line 40 left out).
start_flip_animation_no_state(card) ==
    [card EXCEPT !.flip_animation_progress = 0]

\* Card.start_flip_animation
start_flip_animation(card) ==
    [card EXCEPT !.state = FLIPPING, !.flip_animation_progress = 0]

\* update_flip_animation that ends the flip in the wrong state (line 50).
update_flip_animation_to_matched(card, d) ==
    IF card.state = FLIPPING
    THEN LET p == card.flip_animation_progress + d * FLIP_SPEED
         IN  IF p >= Scale
             THEN [card EXCEPT !.flip_animation_progress = Scale, !.state = MATCHED]
             ELSE [card EXCEPT !.flip_animation_progress = p]
    ELSE card

\* update_flip_animation with a flip of 2 s: progress += dt * 0.5 (line 46).
update_flip_animation_slow(card, d) ==
    IF card.state = FLIPPING
    THEN LET p == card.flip_animation_progress + d \div 2
         IN  IF p >= Scale
             THEN [card EXCEPT !.flip_animation_progress = Scale, !.state = REVEALED]
             ELSE [card EXCEPT !.flip_animation_progress = p]
    ELSE card

\* Card.update_flip_animation: progress += dt * 8.0, Revealed at 1.0
update_flip_animation(card, d) ==
    IF card.state = FLIPPING
    THEN LET p == card.flip_animation_progress + d * FLIP_SPEED
         IN  IF p >= Scale
             THEN [card EXCEPT !.flip_animation_progress = Scale, !.state = REVEALED]
             ELSE [card EXCEPT !.flip_animation_progress = p]
    ELSE card

\* ---------------------------------------------------------------- load_images

image_files == <<"1.jpg", "2.png", "3.png", "6.jpg", "9.jpg", "11.png", "12.jpg", "13.jpg">>
fallback_names == <<"fallback_0", "fallback_1", "fallback_2", "fallback_3",
                    "fallback_4", "fallback_5", "fallback_6", "fallback_7">>

\* The files of image_files that exist and load, in order, given that the first
\* `missing` of them do not.
loaded_files(missing) ==
    SubSeq(image_files, missing + 1, Len(image_files))

\* load_images without its fallback surfaces (lines 129-137 left out).
load_images_no_fallback(missing) == loaded_files(missing)

\* MemoryGame.load_images: the loaded files, then fallback_i for i in
\* range(len(images), 8).
load_images(missing) ==
    LET loaded == loaded_files(missing)
    IN  IF Len(loaded) < NUM_IMAGES
        THEN loaded \o SubSeq(fallback_names, Len(loaded) + 1, NUM_IMAGES)
        ELSE loaded

\* ---------------------------------------------------------------- setup_game

\* random.shuffle's draw of j in range(i + 1), for the generator seeded `seed`.
randbelow(seed, i) ==
    ((seed + 2) * (i * i + 3) + 5 * i + (seed + 2) * (seed + 2)) % (i + 1)

swap(x, i, j) == [x EXCEPT ![i + 1] = x[j + 1], ![j + 1] = x[i + 1]]

\* random.shuffle: for i in reversed(range(1, len(x))): swap x[i], x[randbelow(i+1)]
RECURSIVE shuffle_from(_, _, _)
shuffle_from(x, i, seed) ==
    IF i < 1 THEN x
    ELSE shuffle_from(swap(x, i, randbelow(seed, i)), i - 1, seed)

shuffle(x, seed) == shuffle_from(x, Len(x) - 1, seed)

\* setup_game, lines 144-155: the first 8 keys, or the keys repeated.
selected_images(image_keys) ==
    IF Len(image_keys) >= NUM_IMAGES
    THEN SubSeq(image_keys, 1, NUM_IMAGES)
    ELSE [i \in 1 .. NUM_IMAGES |-> image_keys[((i - 1) % Len(image_keys)) + 1]]

\* setup_game, lines 158-159
image_pairs(image_keys, seed) ==
    shuffle(selected_images(image_keys) \o selected_images(image_keys), seed)

\* setup_game, lines 162-175: the grid in row-major order.
new_cards(image_keys, seed) ==
    LET pairs == image_pairs(image_keys, seed)
    IN  [row \in Rows |-> [col \in Cols |-> Card(pairs[row * GRID_SIZE + col + 1])]]

\* setup_game that does not reset moves (line 179 left out).
setup_game_keep_moves(g, image_keys, seed) ==
    [g EXCEPT !.cards = new_cards(image_keys, seed),
              !.revealed_cards = <<>>,
              !.start_time = None,
              !.game_won = FALSE,
              !.mismatch_timer = 0,
              !.showing_mismatch = FALSE]

\* MemoryGame.setup_game
setup_game(g, image_keys, seed) ==
    [g EXCEPT !.cards = new_cards(image_keys, seed),
              !.revealed_cards = <<>>,
              !.moves = 0,
              !.start_time = None,
              !.game_won = FALSE,
              !.mismatch_timer = 0,
              !.showing_mismatch = FALSE]

\* ---------------------------------------------------------------- clicks

\* MemoryGame.get_card_rect: <<x, y, width, height>>
get_card_rect(row, col) ==
    <<col * (CARD_SIZE + CARD_MARGIN), row * (CARD_SIZE + CARD_MARGIN) + UI_OFFSET,
      CARD_SIZE, CARD_SIZE>>

\* pygame.Rect.collidepoint: the right and bottom edges are outside.
collidepoint(rect, pos) ==
    /\ rect[1] <= pos[1] /\ pos[1] < rect[1] + rect[3]
    /\ rect[2] <= pos[2] /\ pos[2] < rect[2] + rect[4]

\* handle_card_click, lines 197-200: the cards whose rectangle holds pos.
cards_at(pos) ==
    {c \in Cells : collidepoint(get_card_rect(c[1], c[2]), pos)}

\* Row-major position of a card, the order of the loops in lines 197-198.
index(c) == c[1] * GRID_SIZE + c[2]

\* The first card of a non-empty set in row-major order.
first_card(S) == CHOOSE c \in S : \A d \in S : index(c) <= index(d)

\* The Card object at <<row, col>> of a grid.
at(cs, c) == cs[c[1]][c[2]]

\* check_win that scans the first row only.
check_win_first_row(g) ==
    IF \A c \in Cells : c[1] = 0 => at(g.cards, c).state = MATCHED
    THEN [g EXCEPT !.game_won = TRUE]
    ELSE g

\* MemoryGame.check_win
check_win(g) ==
    IF \A c \in Cells : at(g.cards, c).state = MATCHED
    THEN [g EXCEPT !.game_won = TRUE]
    ELSE g

\* match_found that leaves revealed_cards as it is (line 231 left out).
match_found_keep_revealed(g, card1, card2) ==
    [g EXCEPT !.cards[card1[1]][card1[2]].state = MATCHED,
              !.cards[card2[1]][card2[2]].state = MATCHED]

\* reveal_card, lines 227-231: both revealed cards become Matched.
match_found(g, card1, card2) ==
    [g EXCEPT !.cards[card1[1]][card1[2]].state = MATCHED,
              !.cards[card2[1]][card2[2]].state = MATCHED,
              !.revealed_cards = <<>>]

\* no_match that does not set showing_mismatch (line 237 left out).
no_match_flag_unset(g) ==
    [g EXCEPT !.mismatch_timer = MISMATCH_DELAY * Scale]

\* reveal_card, lines 237-238
no_match(g) ==
    [g EXCEPT !.showing_mismatch = TRUE, !.mismatch_timer = MISMATCH_DELAY * Scale]

\* evaluate_pair that counts a move only when the pair matches.
evaluate_pair_count_matches(g) ==
    IF Len(g.revealed_cards) = 2
    THEN LET card1 == g.revealed_cards[1]
             card2 == g.revealed_cards[2]
         IN  IF at(g.cards, card1).image_id = at(g.cards, card2).image_id
             THEN check_win(match_found([g EXCEPT !.moves = @ + 1], card1, card2))
             ELSE no_match(g)
    ELSE g

\* evaluate_pair that does not compare the image ids (line 225).
evaluate_pair_any_two(g) ==
    IF Len(g.revealed_cards) = 2
    THEN LET card1 == g.revealed_cards[1]
             card2 == g.revealed_cards[2]
             counted == [g EXCEPT !.moves = @ + 1]
         IN  check_win(match_found(counted, card1, card2))
    ELSE g

\* reveal_card, lines 220-238: the two revealed cards are evaluated.
evaluate_pair(g) ==
    IF Len(g.revealed_cards) = 2
    THEN LET card1 == g.revealed_cards[1]
             card2 == g.revealed_cards[2]
             counted == [g EXCEPT !.moves = @ + 1]
         IN  IF at(g.cards, card1).image_id = at(g.cards, card2).image_id
             THEN check_win(match_found(counted, card1, card2))
             ELSE no_match(counted)
    ELSE g

\* reveal_card that sets start_time at every reveal (line 212 left out).
reveal_card_restamp(g, card, t) ==
    evaluate_pair(
        [g EXCEPT !.start_time = t,
                  !.cards[card[1]][card[2]] = start_flip_animation(@),
                  !.revealed_cards = Append(@, card)])

\* MemoryGame.reveal_card, at time t
reveal_card(g, card, t) ==
    evaluate_pair(
        [g EXCEPT !.start_time = IF @ = None THEN t ELSE @,
                  !.cards[card[1]][card[2]] = start_flip_animation(@),
                  !.revealed_cards = Append(@, card)])

\* handle_card_click that tests game_won only in line 193.
handle_card_click_no_mismatch_guard(g, pos, t) ==
    IF g.game_won
    THEN g
    ELSE IF cards_at(pos) = {}
         THEN g
         ELSE LET card == first_card(cards_at(pos))
              IN  IF at(g.cards, card).state = HIDDEN
                  THEN reveal_card(g, card, t)
                  ELSE g

\* handle_card_click that reveals every card that is not Matched (line 204).
handle_card_click_not_matched(g, pos, t) ==
    IF g.game_won \/ g.showing_mismatch
    THEN g
    ELSE IF cards_at(pos) = {}
         THEN g
         ELSE LET card == first_card(cards_at(pos))
              IN  IF at(g.cards, card).state # MATCHED
                  THEN reveal_card(g, card, t)
                  ELSE g

\* MemoryGame.handle_card_click, at time t
handle_card_click(g, pos, t) ==
    IF g.game_won \/ g.showing_mismatch
    THEN g
    ELSE IF cards_at(pos) = {}
         THEN g
         ELSE LET card == first_card(cards_at(pos))
              IN  IF at(g.cards, card).state = HIDDEN
                  THEN reveal_card(g, card, t)
                  ELSE g

\* keydown_space that does not test game_won (line 388).
keydown_space_always(g, image_keys, seed) == setup_game(g, image_keys, seed)

\* handle_events, lines 385-389, for event.key == K_SPACE
keydown_space(g, image_keys, seed) ==
    IF g.game_won THEN setup_game(g, image_keys, seed) ELSE g

\* ---------------------------------------------------------------- update, draw

\* update, lines 252-255: every card's flip animation advances.
animate(cs, d) ==
    [row \in Rows |-> [col \in Cols |-> update_flip_animation(cs[row][col], d)]]

\* hide_mismatch that turns every card of the grid face down.
hide_mismatch_all(g) ==
    [g EXCEPT !.cards = [row \in Rows |-> [col \in Cols |->
                  [g.cards[row][col] EXCEPT !.state = HIDDEN]]],
              !.revealed_cards = <<>>,
              !.showing_mismatch = FALSE]

\* hide_mismatch that leaves showing_mismatch set (line 265 left out).
hide_mismatch_keep_flag(g) ==
    [g EXCEPT !.cards = [row \in Rows |-> [col \in Cols |->
                  IF \E i \in 1 .. Len(g.revealed_cards) : g.revealed_cards[i] = <<row, col>>
                  THEN [g.cards[row][col] EXCEPT !.state = HIDDEN]
                  ELSE g.cards[row][col]]],
              !.revealed_cards = <<>>]

\* update, lines 262-265: the revealed cards become Hidden.
hide_mismatch(g) ==
    [g EXCEPT !.cards = [row \in Rows |-> [col \in Cols |->
                  IF \E i \in 1 .. Len(g.revealed_cards) : g.revealed_cards[i] = <<row, col>>
                  THEN [g.cards[row][col] EXCEPT !.state = HIDDEN]
                  ELSE g.cards[row][col]]],
              !.revealed_cards = <<>>,
              !.showing_mismatch = FALSE]

\* mismatch_countdown that hides the cards as soon as the timer is below its
\* start value.
mismatch_countdown_hasty(g, d) ==
    IF g.showing_mismatch
    THEN LET counted == [g EXCEPT !.mismatch_timer = @ - d]
         IN  IF counted.mismatch_timer < MISMATCH_DELAY * Scale
             THEN hide_mismatch(counted)
             ELSE counted
    ELSE g

\* update, lines 258-265
mismatch_countdown(g, d) ==
    IF g.showing_mismatch
    THEN LET counted == [g EXCEPT !.mismatch_timer = @ - d]
         IN  IF counted.mismatch_timer <= 0 THEN hide_mismatch(counted) ELSE counted
    ELSE g

\* MemoryGame.update
update(g, d) ==
    mismatch_countdown([g EXCEPT !.cards = animate(@, d)], d)

\* MemoryGame.draw_ui, at time t: lines 345-347 hold the only write of the
\* render step.
draw_ui(g, t) ==
    IF g.game_won /\ g.win_time = None
    THEN [g EXCEPT !.win_time = t]
    ELSE g

\* MemoryGame.draw, at time t
draw(g, t) == draw_ui(g, t)

\* ---------------------------------------------------------------- the player

\* Pointer positions: the centre of every card, the gap right of card (0, 0),
\* the first pixel right of card (0, 0), and a point of the text area.
ClickPoints ==
    {<<c[2] * (CARD_SIZE + CARD_MARGIN) + CARD_SIZE \div 2,
       c[1] * (CARD_SIZE + CARD_MARGIN) + UI_OFFSET + CARD_SIZE \div 2>> : c \in Cells}
    \cup {<<CARD_SIZE + CARD_MARGIN \div 2, UI_OFFSET + CARD_SIZE \div 2>>,
          <<CARD_SIZE, UI_OFFSET + CARD_SIZE \div 2>>,
          <<CARD_SIZE \div 2, UI_OFFSET \div 2>>}

\* The MOUSEBUTTONDOWN events: <<button, pos>>.  The left button anywhere, the
\* right button on card (0, 0).
MouseEvents ==
    {<<LEFT_BUTTON, pos>> : pos \in ClickPoints}
    \cup {<<LEFT_BUTTON + 2, <<CARD_SIZE \div 2, UI_OFFSET + CARD_SIZE \div 2>>>>}

\* The values of dt: a frame shorter than a time unit, or whole DtUnits.
Dts == {k * DtUnit : k \in 0 .. MaxDtSteps}

\* The clock stops once a mismatch delay, in frames of DtUnit, has passed.
MaxClock == Epoch + MISMATCH_DELAY * Scale + DtUnit - 1

Seeds == 0 .. MaxSeed

\* A mismatch that starts now is over before the clock stops.
RoomForMismatch == (now - dt) + MISMATCH_DELAY * Scale + DtUnit - 1 <= MaxClock

\* The clicks the player makes.  A click that lands on no face-down card, or
\* while the game ignores clicks, is free.  A turn is opened on the first
\* face-down card of the grid.  The second card of a turn is the partner of the
\* first, or any other face-down card while there is room for the mismatch.
PlayerMay(pos) ==
    \/ game_won
    \/ showing_mismatch
    \/ \A c \in cards_at(pos) :
          \/ at(cards, c).state # HIDDEN
          \/ IF revealed_cards = <<>>
             THEN \A d \in Cells : at(cards, d).state = HIDDEN => index(c) <= index(d)
             ELSE \/ RoomForMismatch
                  \/ \A i \in 1 .. Len(revealed_cards) :
                        at(cards, revealed_cards[i]).image_id = at(cards, c).image_id

\* ---------------------------------------------------------------- run

\* MemoryGame.__init__, and run up to its first handle_events.
Init ==
    /\ \E missing \in 0 .. MaxMissing : images = load_images(missing)
    /\ \E seed \in Seeds : cards = new_cards(images, seed)
    /\ revealed_cards = <<>>
    /\ moves = 0
    /\ start_time = None
    /\ game_won = FALSE
    /\ mismatch_timer = 0
    /\ showing_mismatch = FALSE
    /\ win_time = None
    /\ now = Epoch
    /\ dt \in Dts

\* handle_events, lines 391-393
MouseButtonDown(button, pos) ==
    /\ Becomes(IF button = LEFT_BUTTON THEN handle_card_click(self, pos, now) ELSE self)
    /\ UNCHANGED <<images, now, dt>>

\* handle_events, lines 385-389, for event.key == K_SPACE
KeyDownSpace ==
    /\ \E seed \in Seeds : Becomes(keydown_space(self, images, seed))
    /\ UNCHANGED <<images, now, dt>>

\* run, lines 405-406 and then 402: update, draw, and the next frame's
\* dt = self.clock.tick(60) / 1000.0
Frame(d) ==
    /\ now + d <= MaxClock
    /\ Becomes(draw(update(self, dt), now))
    /\ dt' = d
    /\ now' = now + d
    /\ UNCHANGED images

Click == \E e \in MouseEvents : PlayerMay(e[2]) /\ MouseButtonDown(e[1], e[2])

NextFrame == \E d \in Dts : Frame(d)

Next ==
    \/ Click
    \/ KeyDownSpace
    \/ NextFrame

Spec == Init /\ [][Next]_vars

\* A frame in which time passes.
FramePositive == \E d \in Dts \ {0} : Frame(d)

\* run's loop does not stop, and the clock goes on until it stops.
SpecLive == Spec /\ WF_vars(NextFrame) /\ WF_vars(FramePositive)

\* ================================================================ claims

\* What a left click at pos, a tick of d and a draw make of the object.
clicked(pos) == handle_card_click(self, pos, now)
ticked(d) == update(self, d)
drawn == draw(self, now)

state_of(c) == at(cards, c).state
image_of(c) == at(cards, c).image_id

\* The image ids of a grid, cell by cell.
ids_of(cs) == [c \in Cells |-> at(cs, c).image_id]

\* A grid of 4 x 4 cards that shows 8 image ids, each on exactly two cards.
Paired(cs) ==
    /\ DOMAIN cs = Rows
    /\ \A row \in Rows : DOMAIN cs[row] = Cols
    /\ Cardinality(Cells) = 16
    /\ Cardinality({at(cs, c).image_id : c \in Cells}) = 8
    /\ \A c \in Cells :
          Cardinality({d \in Cells : at(cs, d).image_id = at(cs, c).image_id}) = 2

\* C1: the grid is 4 x 4 = 16 cards showing exactly 8 distinct image ids, each
\* on exactly two cards: in every state, so after the first setup_game and
\* after every restart, and whatever number of image files loaded; no click,
\* tick or draw changes the image id of a cell.
C1_Pairing ==
    /\ Paired(cards)
    /\ \A missing \in 0 .. NUM_IMAGES :
          /\ Len(load_images(missing)) = 8
          /\ Cardinality({load_images(missing)[i] : i \in 1 .. 8}) = 8
    /\ \A pos \in ClickPoints : ids_of(clicked(pos).cards) = ids_of(cards)
    /\ \A d \in Dts : ids_of(ticked(d).cards) = ids_of(cards)
    /\ ids_of(drawn.cards) = ids_of(cards)

\* A second game is under way: the first was won, restarted, and a card of the
\* new grid is already matched.
C1_Witness ==
    /\ win_time # None
    /\ ~game_won
    /\ \E c \in Cells : state_of(c) = MATCHED

AllMatched(cs) == \A c \in Cells : at(cs, c).state = MATCHED

\* C2: game_won is true exactly when all 16 cards are Matched, and while it is
\* true no click, tick or draw makes it false.
C2_WonIffAllMatched ==
    /\ game_won <=> AllMatched(cards)
    /\ game_won =>
          /\ \A pos \in ClickPoints : clicked(pos).game_won
          /\ \A d \in Dts : ticked(d).game_won
          /\ drawn.game_won

\* The game is won.
C2_Witness == game_won /\ AllMatched(cards) /\ moves >= 8

\* The object becomes h by the reveal of a card: a face-down card is turned.
Reveals(h) ==
    \E c \in Cells : state_of(c) = HIDDEN /\ at(h.cards, c).state # HIDDEN

\* C3: a click that reveals the second card of a pair adds exactly 1 to moves,
\* match or not; every other click, every tick and every draw leaves moves as
\* it is.
C3_Moves ==
    /\ \A pos \in ClickPoints : \E h \in {clicked(pos)} :
          h.moves = IF Len(revealed_cards) = 1 /\ Reveals(h) THEN moves + 1 ELSE moves
    /\ \A d \in Dts : ticked(d).moves = moves
    /\ drawn.moves = moves

\* Two moves were made: one pair is matched, one mismatch was shown and hidden.
C3_Witness ==
    /\ moves = 2
    /\ Cardinality({c \in Cells : state_of(c) = MATCHED}) = 2
    /\ revealed_cards = <<>>
    /\ ~showing_mismatch

\* C4: but for a restart, a card that is Matched is Matched in the next state.
C4_MatchedStays ==
    [][(game_won /\ KeyDownSpace) \/
       \A c \in Cells : state_of(c) = MATCHED => at(cards', c).state = MATCHED]_vars

\* A pair is matched and the two cards of a mismatch are about to be hidden.
C4_Witness ==
    /\ \E c \in Cells : state_of(c) = MATCHED
    /\ showing_mismatch
    /\ mismatch_timer <= dt

\* C5: revealed_cards holds 0, 1 or 2 cards, and so after any further click.
C5_RevealedAtMostTwo ==
    /\ Len(revealed_cards) \in {0, 1, 2}
    /\ \A pos \in ClickPoints : Len(clicked(pos).revealed_cards) \in {0, 1, 2}

\* Two cards are revealed.
C5_Witness == Len(revealed_cards) = 2

\* Both cards of the pair <<c1, c2>> are in the states sts, in the grid cs.
BothIn(cs, c1, c2, sts) == at(cs, c1).state \in sts /\ at(cs, c2).state \in sts

\* C6, the part about single steps.  The click that reveals a second card
\* unlike the first sets mismatch-pending with the timer at 1.0 s and keeps
\* both face-up in revealed_cards.  While mismatch-pending, two cards with
\* different ids are face-up in revealed_cards and the timer is above 0; a tick
\* of dt below the timer subtracts dt and keeps all that (with both cards
\* Revealed once the flip time has passed), a tick of dt at or above the timer
\* hides both cards, empties revealed_cards and clears mismatch-pending; a draw
\* changes none of it.
C6_Delay ==
    /\ Len(revealed_cards) = 1 =>
          \A pos \in ClickPoints : \A c \in cards_at(pos) :
             state_of(c) = HIDDEN /\ image_of(c) # image_of(revealed_cards[1]) =>
                \E h \in {clicked(pos)} :
                   /\ h.showing_mismatch
                   /\ h.mismatch_timer = MISMATCH_DELAY * Scale
                   /\ h.revealed_cards = <<revealed_cards[1], c>>
                   /\ BothIn(h.cards, revealed_cards[1], c, {FLIPPING, REVEALED})
    /\ showing_mismatch =>
          /\ Len(revealed_cards) = 2
          /\ image_of(revealed_cards[1]) # image_of(revealed_cards[2])
          /\ BothIn(cards, revealed_cards[1], revealed_cards[2], {FLIPPING, REVEALED})
          /\ mismatch_timer > 0
          /\ mismatch_timer <= MISMATCH_DELAY * Scale
          /\ drawn.showing_mismatch /\ drawn.cards = cards
          /\ drawn.revealed_cards = revealed_cards
          /\ \A d \in Dts : \E h \in {ticked(d)} :
                IF d < mismatch_timer
                THEN /\ h.showing_mismatch
                     /\ h.mismatch_timer = mismatch_timer - d
                     /\ h.revealed_cards = revealed_cards
                     /\ BothIn(h.cards, revealed_cards[1], revealed_cards[2],
                               IF d * FLIP_SPEED >= Scale
                               THEN {REVEALED} ELSE {FLIPPING, REVEALED})
                ELSE /\ ~h.showing_mismatch
                     /\ h.revealed_cards = <<>>
                     /\ BothIn(h.cards, revealed_cards[1], revealed_cards[2], {HIDDEN})

\* C6: the steps are as C6_Delay says, and while frames in which time passes
\* go on, mismatch-pending is always cleared in the end.
C6_MismatchDelay == []C6_Delay /\ (showing_mismatch ~> ~showing_mismatch)

\* Part of the delay has passed: the two cards are still shown.
C6_Witness ==
    /\ showing_mismatch
    /\ mismatch_timer < MISMATCH_DELAY * Scale
    /\ BothIn(cards, revealed_cards[1], revealed_cards[2], {REVEALED})

C8_FaceUpClickIgnored ==
    \A pos \in ClickPoints : \A c \in cards_at(pos) :
       state_of(c) # HIDDEN => clicked(pos) = self

\* Clicks are heeded, and a Matched, a Flipping or Revealed and a Hidden card
\* are on the grid.
C8_Witness ==
    /\ ~game_won
    /\ ~showing_mismatch
    /\ \E c \in Cells : state_of(c) = MATCHED
    /\ \E c \in Cells : state_of(c) = FLIPPING
    /\ \E c \in Cells : state_of(c) = HIDDEN

\* C9: while mismatch-pending a click anywhere, also on a Hidden card, leaves
\* every field of the object as it is.
C9_PendingClickIgnored ==
    showing_mismatch => \A pos \in ClickPoints : clicked(pos) = self

\* Mismatch-pending with Hidden cards on the grid, in a game with a matched pair.
C9_Witness ==
    /\ showing_mismatch
    /\ \E c \in Cells : state_of(c) = HIDDEN
    /\ \E c \in Cells : state_of(c) = MATCHED

\* A game as setup_game leaves it: 16 paired cards, all Hidden and unflipped,
\* no move, not won, nothing revealed, no mismatch pending, no start time.
FreshGame(g) ==
    /\ Paired(g.cards)
    /\ \A c \in Cells : at(g.cards, c).state = HIDDEN
    /\ g.moves = 0
    /\ ~g.game_won
    /\ g.revealed_cards = <<>>
    /\ ~g.showing_mismatch

\* C10 as claimed: a restart request (the space key) in any state leaves a
\* fresh game.
C10_RestartAnyState ==
    \A seed \in Seeds : FreshGame(keydown_space(self, images, seed))

\* C10 as amended: setup_game leaves a fresh game from whatever state it is run
\* in, and a restart request runs it when the game is won.
C10_Restart ==
    \A seed \in Seeds :
       /\ FreshGame(setup_game(self, images, seed))
       /\ game_won =>
             keydown_space(self, images, seed) = setup_game(self, images, seed)

\* A won game was restarted just now.
C10_Witness ==
    /\ win_time # None
    /\ FreshGame(self)
    /\ start_time = None

\* C11: the click that matches the last pair sets game_won, and the win
\* timestamp the draw of that frame leaves is the time of that match; a draw in
\* a won game whose win timestamp is fixed leaves it as it is.
C11_WinTimeAtFinalMatch ==
    /\ \A pos \in ClickPoints : \E h \in {clicked(pos)} :
          /\ h.game_won <=> (game_won \/ AllMatched(h.cards))
          /\ ~game_won /\ h.game_won => draw(update(h, dt), now).win_time = now
    /\ game_won /\ win_time # None => drawn.win_time = win_time

\* C12: setup_game leaves no win timestamp, and the win timestamp a won game
\* shows is not earlier than the game's start_time: the final time, win
\* timestamp minus start_time, is not negative.
C12_RestartDiscardsWinTime ==
    /\ \A seed \in Seeds : setup_game(self, images, seed).win_time = None
    /\ game_won => \E h \in {drawn} : h.win_time - h.start_time >= 0

\* C13: a space key-press while the game is not won leaves every field of the
\* object as it is; a space key-press while the game is won runs setup_game.
C13_SpaceNotWonIgnored ==
    \A seed \in Seeds : \E h \in {keydown_space(self, images, seed)} :
       IF game_won THEN h = setup_game(self, images, seed) ELSE h = self

\* A game under way with a card revealed, a pair matched and the clock running.
C13_Witness ==
    /\ ~game_won
    /\ Len(revealed_cards) = 1
    /\ \E c \in Cells : state_of(c) = MATCHED
    /\ start_time # None
    /\ start_time < now

\* C14: start_time is unset exactly while no card was revealed since
\* setup_game; the reveal of a card sets it to the current time when it is
\* unset, and no other reveal, no ignored click, no tick and no draw changes
\* it; setup_game unsets it.
C14_StartTime ==
    /\ start_time = None <=> (moves = 0 /\ revealed_cards = <<>>)
    /\ start_time = None => \A c \in Cells : state_of(c) = HIDDEN
    /\ \A pos \in ClickPoints : \E h \in {clicked(pos)} :
          h.start_time = IF start_time = None /\ Reveals(h) THEN now ELSE start_time
    /\ \A d \in Dts : ticked(d).start_time = start_time
    /\ drawn.start_time = start_time
    /\ \A seed \in Seeds : setup_game(self, images, seed).start_time = None

\* A card was revealed just now, later than the first reveal of the game: the
\* mismatch timer is at its start value and start_time is in the past.
C14_Witness ==
    /\ showing_mismatch
    /\ mismatch_timer = MISMATCH_DELAY * Scale
    /\ start_time # None
    /\ start_time < now

\* C15: a draw leaves every field of the object, the win timestamp too, as it
\* is.
C15_DrawNoSideEffect == drawn = self

AnyDt == 0 .. (MISMATCH_DELAY * Scale + DtUnit)

\* C17: no click and no draw turns a card that is not Hidden to Hidden.  A tick
\* does so only while mismatch-pending with dt at or above the mismatch timer,
\* the tick in which the timer expires, and only to a card that is Flipping or
\* Revealed before the tick and Revealed once the tick's flip animation has
\* run, which is when the timer hides it: for every dt, no card is Flipping
\* when it is hidden.
C17_HiddenFromRevealed ==
    /\ \A pos \in ClickPoints : \E h \in {clicked(pos)} : \A c \in Cells :
          state_of(c) # HIDDEN => at(h.cards, c).state # HIDDEN
    /\ \A c \in Cells : state_of(c) # HIDDEN => at(drawn.cards, c).state # HIDDEN
    /\ \A d \in AnyDt : \E h \in {ticked(d)} : \E g \in {animate(cards, d)} :
          \A c \in Cells :
             state_of(c) # HIDDEN /\ at(h.cards, c).state = HIDDEN =>
                /\ showing_mismatch
                /\ d >= mismatch_timer
                /\ state_of(c) \in {FLIPPING, REVEALED}
                /\ at(g, c).state = REVEALED
    /\ showing_mismatch =>
          \A d \in AnyDt : d >= mismatch_timer =>
             BothIn(ticked(d).cards, revealed_cards[1], revealed_cards[2], {HIDDEN})

\* Mismatch-pending with the second card still Flipping: a tick of 1 s or more
\* hides a card that is Flipping before the tick.
C17_Witness ==
    /\ showing_mismatch
    /\ state_of(revealed_cards[1]) = REVEALED
    /\ state_of(revealed_cards[2]) = FLIPPING
    /\ \E c \in Cells : state_of(c) = MATCHED

\* C18: mismatch-pending is set exactly when revealed_cards holds two cards,
\* and these two have different image ids; when it is not set, revealed_cards
\* holds at most one card.
C18_MismatchIffTwoRevealed ==
    /\ showing_mismatch <=> Len(revealed_cards) = 2
    /\ showing_mismatch => image_of(revealed_cards[1]) # image_of(revealed_cards[2])
    /\ ~showing_mismatch => Len(revealed_cards) <= 1

\* The first turn of a game is a mismatch: two cards are shown, all others are
\* Hidden.
C18_Witness ==
    /\ showing_mismatch
    /\ Len(revealed_cards) = 2
    /\ moves = 1
    /\ Cardinality({c \in Cells : state_of(c) = HIDDEN}) = 14

\* The cards of revealed_cards, as a set.
revealed_set == {revealed_cards[i] : i \in 1 .. Len(revealed_cards)}

\* C19: the cards in revealed_cards are exactly the cards that are Flipping or
\* Revealed, and none is in it twice.
C19_RevealedAreFaceUp ==
    /\ revealed_set = {c \in Cells : state_of(c) \in {FLIPPING, REVEALED}}
    /\ Cardinality(revealed_set) = Len(revealed_cards)

\* After a mismatch was hidden again the first card of the next turn is
\* Flipping, and it is the only card in revealed_cards.
C19_Witness ==
    /\ moves >= 1
    /\ Len(revealed_cards) = 1
    /\ state_of(revealed_cards[1]) = FLIPPING
    /\ Cardinality({c \in Cells : state_of(c) = HIDDEN}) = 15

\* The Matched cards of a grid.
matched_cards(cs) == {c \in Cells : at(cs, c).state = MATCHED}

\* C20: of the two cards of an image id either both or neither are Matched, so
\* the number of Matched cards is even; the cards a click makes Matched are
\* none, or two cards with one image id.
C20_MatchedInPairs ==
    /\ \A c, d \in Cells :
          image_of(c) = image_of(d) => (state_of(c) = MATCHED <=> state_of(d) = MATCHED)
    /\ Cardinality(matched_cards(cards)) % 2 = 0
    /\ \A pos \in ClickPoints :
          \E new \in {matched_cards(clicked(pos).cards) \ matched_cards(cards)} :
             \/ new = {}
             \/ /\ Cardinality(new) = 2
                /\ \A c, d \in new : image_of(c) = image_of(d)

\* Two pairs are matched and a third turn is under way.
C20_Witness ==
    /\ Cardinality(matched_cards(cards)) = 4
    /\ Len(revealed_cards) = 1
    /\ ~game_won

====
